---- MODULE Spec2Model ----
(***************************************************************************)
(* The session registry and connection relay of src/src/server.js: the    *)
(* create-session request, the WebSocket connection handler with its      *)
(* message, pong and close handlers, the per-transport ping interval, the *)
(* per-close empty-session timer and the global idle sweep.               *)
(*                                                                         *)
(* Session objects are kept apart from the registry (the Map `sessions`): *)
(* the handlers of a connection close over the session OBJECT they looked *)
(* up at connection time, so an object can outlive its registry entry.    *)
(* Time is the JavaScript clock in milliseconds, advanced in quanta of    *)
(* Quantum; a timer that is due fires before the clock moves on.          *)
(***************************************************************************)
EXTENDS Integers, Sequences, FiniteSets, TLC

----------------------------------------------------------------------------
(* Bounds of the model                                                     *)

\* requests and frames that arrive from outside: create-session requests,
\* connections, messages, pongs and closes by the peer
MaxArrivals == 5
\* clock quanta during which they arrive
MaxBusyTicks == 1
\* clock quanta the clock advances in all
MaxTicks == 8

----------------------------------------------------------------------------
(* Program constants                                                       *)

\* ws.close(1008, ...): the policy-violation status
POLICY_VIOLATION == 1008
\* readyState === 1: the transport is open
OPEN == 1
CLOSING == OPEN + 1
CLOSED == OPEN + 2
\* setTimeout(..., 5 * 60 * 1000): the empty-session grace period
GRACE_PERIOD == 5 * 60 * 1000
\* const timeout = 30 * 60 * 1000: the idle timeout
IDLE_TIMEOUT == 30 * 60 * 1000
\* setInterval(..., 10 * 60 * 1000): the idle sweep's period
SWEEP_INTERVAL == 10 * 60 * 1000
\* the clock's quantum: the greatest common divisor of the three delays
Quantum == 5 * 60 * 1000

\* null, for a string-valued field or request parameter (a parameter that is
\* absent and one that is empty are both falsy and both differ from any uuid)
Null == ""
\* null, for a field or request parameter holding a uuid
NoId == Null
\* null, for a field holding a transport
NoWs == 0
\* close() called without a status code
NoCode == 0

\* the values uuidv4().substring(0, 8).toUpperCase() takes, in the order in
\* which they are first drawn
SessionIdSeq == <<"1A2B3C4D", "5E6F7A8B">>
SessionIds == {SessionIdSeq[i] : i \in 1..Len(SessionIdSeq)}
\* uuidv4() in full: a fresh value at every call, here the number of the
\* session object (a hostId) or of the transport (a guestId) it is drawn for
HostIdOf(o) == "host-uuid-" \o ToString(o)
GuestIdOf(t) == "guest-uuid-" \o ToString(t)
\* the role parameter of a connection request
Roles == {"host", "guest", "admin", Null}

\* the timestamp a client put into a message of its own
ClientTimestamp == 0 - 1
\* inbound payloads, by what JSON.parse makes of the text: kind says what
\* value it returns ("garbage": none, it throws), fields are the value's own
\* enumerable properties, which are what a spread of the value copies. The
\* number is 5, the boolean true, the string "hi", the array ["hi"]: a
\* number and a boolean have no such property, a string has one for each
\* character and an array one for each element, named by the index
Payloads ==
    { [kind |-> "garbage", fields |-> <<>>],
      [kind |-> "null", fields |-> <<>>],
      [kind |-> "number", fields |-> <<>>],
      [kind |-> "boolean", fields |-> <<>>],
      [kind |-> "string", fields |-> [k \in {"0", "1"} |-> IF k = "0" THEN "h" ELSE "i"]],
      [kind |-> "array", fields |-> [k \in {"0"} |-> "hi"]],
      [kind |-> "object", fields |-> [type |-> "message", text |-> "hi"]],
      [kind |-> "object",
       fields |-> [type |-> "message", text |-> "hi", sender |-> "guest",
                   timestamp |-> ClientTimestamp]] }

----------------------------------------------------------------------------
VARIABLES
    sessions,     \* the registry: session id -> index of the session object
    objs,         \* the session objects ever created, in creation order
    ws,           \* the transports ever accepted, in connection order
    timers,       \* the pending empty-session timers, in scheduling order
    now,          \* the clock, in milliseconds
    nextSweep,    \* when the idle sweep's interval fires next
    emptySince,   \* per session object: since when both bindings are null
    event,        \* the request or message the last step handled, or the
                  \* ping it sent, if any
    arrivals      \* the number of requests and frames handled so far

vars == <<sessions, objs, ws, timers, now, nextSweep, emptySince, event, arrivals>>

\* what a step handled: a connection request with its parameters, or a
\* message with the transport it came in on and its payload
Event(op, t, sessionId, role, clientId, data) ==
    [op |-> op, ws |-> t, sessionId |-> sessionId, role |-> role,
     clientId |-> clientId, data |-> data]

NoData == [kind |-> "none", fields |-> <<>>]

\* a step that handled neither
NoEvent == Event("none", NoWs, Null, Null, NoId, NoData)

\* the process is running: no handler has thrown an exception that nothing
\* catches. The program has no 'uncaughtException' handler, so such an
\* exception ends the process, and the state it left is the last one
Running == event.op # "uncaught"

----------------------------------------------------------------------------
(* The Map `sessions`                                                      *)

MapHas(m, k) == k \in DOMAIN m
MapGet(m, k) == IF k \in DOMAIN m THEN m[k] ELSE 0
MapSet(m, k, v) == [x \in (DOMAIN m) \cup {k} |-> IF x = k THEN v ELSE m[x]]
MapDelete(m, k) == [x \in (DOMAIN m) \ {k} |-> m[x]]

(* The transports (the ws library's WebSocket, as the server uses it)      *)

\* WsSend, putting the message ahead of those sent before
WsSendAhead(w, t, msg) == [w EXCEPT ![t].sent = <<msg>> \o @]

\* ws.send(JSON.stringify(msg)) on transport t
WsSend(w, t, msg) == [w EXCEPT ![t].sent = Append(@, msg)]

\* ws.close(code) on transport t: an open transport starts closing, a
\* transport that is closing or closed is left as it is
WsClose(w, t, code) ==
    IF w[t].readyState = OPEN
    THEN [w EXCEPT ![t].readyState = CLOSING, ![t].closeCode = code]
    ELSE w

\* session.xWs && session.xWs.readyState === 1
IsLive(w, t) == t # NoWs /\ w[t].readyState = OPEN

\* a request or frame arrives from outside
Arrival ==
    /\ Running
    /\ arrivals < MaxArrivals
    /\ now <= MaxBusyTicks * Quantum
    /\ arrivals' = arrivals + 1

----------------------------------------------------------------------------
Init ==
    /\ sessions = <<>>
    /\ objs = <<>>
    /\ ws = <<>>
    /\ timers = <<>>
    /\ now = 0
    /\ nextSweep = SWEEP_INTERVAL
    /\ emptySince = <<>>
    /\ event = NoEvent
    /\ arrivals = 0

----------------------------------------------------------------------------
(* POST /api/session/create                                                *)

NewSession(sessionId, hostId, t) ==
    [id |-> sessionId, hostId |-> hostId, guestId |-> NoId,
     hostWs |-> NoWs, guestWs |-> NoWs, createdAt |-> t, lastActivity |-> t]

CreateSession(sessionId) ==
    /\ Arrival
    /\ objs' = Append(objs, NewSession(sessionId, HostIdOf(Len(objs) + 1), now))
    /\ event' = NoEvent
    /\ sessions' = MapSet(sessions, sessionId, Len(objs) + 1)
    /\ emptySince' = Append(emptySince, now)
    /\ UNCHANGED <<ws, timers, now, nextSweep>>

\* the ids a create-session request may draw: one drawn before (a collision
\* of the 8 characters kept), or the first id not drawn yet
Drawn == {objs[o].id : o \in 1..Len(objs)}

SessionIdChoices ==
    Drawn \cup {SessionIdSeq[i] : i \in {Cardinality(Drawn) + 1}
                                        \cap (1..Len(SessionIdSeq))}

(* GET /api/session/:sessionId                                             *)

NotFound == [status |-> 404]

QuerySession(sessionId) ==
    IF ~MapHas(sessions, sessionId)
    THEN NotFound
    ELSE LET session == objs[sessions[sessionId]]
         IN  [status |-> 200, sessionId |-> session.id,
              hasHost |-> session.hostWs # NoWs,
              hasGuest |-> session.guestWs # NoWs,
              createdAt |-> session.createdAt]

(* GET /health                                                             *)

Health == [status |-> "ok", activeSessions |-> Cardinality(DOMAIN sessions)]

----------------------------------------------------------------------------
(* wss.on('connection')                                                    *)

\* a transport as handleUpgrade hands it to the connection handler: open,
\* nothing attached to it yet. closeCode is the status server.js passed to
\* close(); closeFrameReceived and errorEmitted are the library's records
\* that the peer's close frame, or a frame that is no valid frame, has come
\* in, after either of which it delivers no further frame of the peer;
\* socketClosed says that the transport's socket has closed and 'close' is
\* yet to be emitted, or has been
NewWs ==
    [readyState |-> OPEN, closeCode |-> NoCode, listening |-> FALSE,
     session |-> 0, sessionId |-> Null, role |-> Null,
     pingInterval |-> FALSE, closeFrameReceived |-> FALSE,
     errorEmitted |-> FALSE, socketClosed |-> FALSE, sent |-> <<>>]

\* the handlers and the interval the connection handler sets up for
\* transport t, closing over session object o, sessionId and role
Listen(w, t, o, sessionId, role) ==
    [w EXCEPT ![t].listening = TRUE, ![t].session = o,
              ![t].sessionId = sessionId, ![t].role = role,
              ![t].pingInterval = TRUE]

\* if (!sessionId || !role)
MissingParam(sessionId, role) == sessionId = Null \/ role = Null

\* HostAuthorized, asking only that a clientId was sent
HostAuthorizedAnyId(clientId, session) == clientId # NoId

\* clientId !== session.hostId, negated
HostAuthorized(clientId, session) == clientId = session.hostId

\* GuestJoined, sending the session's other identifier
GuestJoinedHostId(session, t) ==
    [type |-> "guest_joined", guestId |-> session.hostId, timestamp |-> t]

\* the guest_joined notification
GuestJoined(session, t) ==
    [type |-> "guest_joined", guestId |-> session.guestId, timestamp |-> t]

\* the connected acknowledgment
Connected(role, sessionId, t) ==
    [type |-> "connected", role |-> role, sessionId |-> sessionId,
     timestamp |-> t]

\* Attach, drawing a guestId at every guest bind
AttachFreshGuestId(session, role, t, uuid) ==
    IF role = "host"
    THEN [session EXCEPT !.hostWs = t]
    ELSE IF role = "guest"
    THEN [session EXCEPT !.guestId = uuid, !.guestWs = t]
    ELSE session

\* session.hostWs = ws, or the guest branch: guestId on the first guest,
\* session.guestWs = ws; any other role attaches nothing
Attach(session, role, t, uuid) ==
    IF role = "host"
    THEN [session EXCEPT !.hostWs = t]
    ELSE IF role = "guest"
    THEN [session EXCEPT !.guestId = IF @ = NoId THEN uuid ELSE @,
                         !.guestWs = t]
    ELSE session

\* if (session.hostWs && session.hostWs.readyState === 1) in the guest branch
NotifiesHost(w, session, role) == role = "guest" /\ IsLive(w, session.hostWs)

\* both bindings null: the model's bookkeeping of since when
BothUnbound(session) == session.hostWs = NoWs /\ session.guestWs = NoWs

NotEmpty == 0 - 1

Reject(w, t) ==
    /\ ws' = WsClose(w, t, POLICY_VIOLATION)
    /\ UNCHANGED <<sessions, objs, timers, now, nextSweep, emptySince>>

Connect(sessionId, role, clientId) ==
    /\ Arrival
    /\ event' = Event("connect", Len(ws) + 1, sessionId, role, clientId, NoData)
    /\ LET t == Len(ws) + 1
           w0 == Append(ws, NewWs)
       IN  IF MissingParam(sessionId, role)
           THEN Reject(w0, t)
           ELSE IF ~MapHas(sessions, sessionId)
           THEN Reject(w0, t)
           ELSE LET o == sessions[sessionId]
                    session == objs[o]
                IN  IF role = "host" /\ ~HostAuthorized(clientId, session)
                    THEN Reject(w0, t)
                    ELSE LET s1 == Attach(session, role, t, GuestIdOf(t))
                             w1 == IF NotifiesHost(w0, s1, role)
                                   THEN WsSend(w0, s1.hostWs, GuestJoined(s1, now))
                                   ELSE w0
                             s2 == [s1 EXCEPT !.lastActivity = now]
                             w2 == WsSend(w1, t, Connected(role, sessionId, now))
                         IN  /\ objs' = [objs EXCEPT ![o] = s2]
                             /\ ws' = Listen(w2, t, o, sessionId, role)
                             /\ emptySince' =
                                  [emptySince EXCEPT ![o] =
                                     IF BothUnbound(s2) THEN @ ELSE NotEmpty]
                             /\ UNCHANGED <<sessions, timers, now, nextSweep>>

\* new URL(request.url, ...) throws on a request-target that is no URL path
\* (such as "//"): the handler ends there, before any test, with an exception
\* that nothing catches. The transport is left open, without close(), handler
\* or interval, and the process ends
ConnectInvalidUrl ==
    /\ Arrival
    /\ event' = Event("uncaught", Len(ws) + 1, Null, Null, NoId, NoData)
    /\ ws' = Append(ws, NewWs)
    /\ UNCHANGED <<sessions, objs, timers, now, nextSweep, emptySince>>

\* the connection requests tried: a host request carries a clientId (null,
\* or the hostId issued to some session), the other roles carry none, and a
\* request without a session id comes with a role or without
ClientIds == {NoId} \cup {HostIdOf(o) : o \in 1..Len(objs)}

Requests ==
    {r \in [sessionId : SessionIds \cup {Null}, role : Roles,
            clientId : ClientIds] :
        /\ r.role # "host" => r.clientId = NoId
        /\ r.sessionId = Null => r.role \in {"guest", Null}}

----------------------------------------------------------------------------
(* the ping interval and ws.on('pong')                                     *)

\* PingTick, without the readyState test: ws.ping() at every tick
PingTickAnyState(t) ==
    /\ Running
    /\ ws[t].pingInterval
    /\ ws' = ws
    /\ event' = Event("ping", t, Null, Null, NoId, NoData)
    /\ UNCHANGED <<sessions, objs, timers, now, nextSweep, emptySince, arrivals>>

\* one tick of the interval: ws.ping() on an open transport, else
\* clearInterval(pingInterval)
PingTick(t) ==
    /\ Running
    /\ ws[t].pingInterval
    /\ IF ws[t].readyState = OPEN
       THEN /\ ws' = ws
            /\ event' = Event("ping", t, Null, Null, NoId, NoData)
       ELSE /\ ws' = [ws EXCEPT ![t].pingInterval = FALSE]
            /\ event' = NoEvent
    /\ UNCHANGED <<sessions, objs, timers, now, nextSweep, emptySince, arrivals>>

\* the library still reads the frames the peer sends on transport t: its
\* socket has not closed, and neither the peer's close frame nor an invalid
\* frame has come in
Receiving(t) ==
    /\ ws[t].readyState \in {OPEN, CLOSING}
    /\ ~ws[t].closeFrameReceived
    /\ ~ws[t].errorEmitted
    /\ ~ws[t].socketClosed

\* a pong frame comes in: the library emits 'pong' while the transport is
\* open, and also while it is closing by the server's own close(), until the
\* peer's close frame has come in; the handler tests nothing
Pong(t) ==
    /\ ws[t].listening
    /\ Receiving(t)
    /\ Arrival
    /\ event' = NoEvent
    /\ objs' = [objs EXCEPT ![ws[t].session].lastActivity = now]
    /\ UNCHANGED <<sessions, ws, timers, now, nextSweep, emptySince>>

----------------------------------------------------------------------------
(* ws.on('message') and handleMessage                                      *)

\* JSON.parse(data.toString()) throws
ParseThrows(data) == data.kind = "garbage"

\* const { type, ...payload } = message throws: message is null. Of a
\* number, a boolean, a string or an array it takes type as undefined and
\* does not throw
DestructureThrows(data) == data.kind = "null"

\* senderRole === 'host' ? session.guestWs : session.hostWs
TargetWs(session, senderRole) ==
    IF senderRole = "host" THEN session.guestWs ELSE session.hostWs

\* TargetConnected, without the readyState test: if (!targetWs) return
TargetConnectedNoState(w, targetWs) == targetWs # NoWs

\* if (!targetWs || targetWs.readyState !== 1) return, negated
TargetConnected(w, targetWs) == IsLive(w, targetWs)

\* Forwarded, with the spread written last: { sender, timestamp, ...message }
ForwardedSpreadLast(message, senderRole, t) ==
    [k \in (DOMAIN message) \cup {"sender", "timestamp"} |->
        IF k \in DOMAIN message THEN message[k]
        ELSE IF k = "sender" THEN senderRole
        ELSE t]

\* { ...message, sender: senderRole, timestamp: new Date().toISOString() }:
\* the two keys written last replace the message's own
Forwarded(message, senderRole, t) ==
    [k \in (DOMAIN message) \cup {"sender", "timestamp"} |->
        IF k = "sender" THEN senderRole
        ELSE IF k = "timestamp" THEN t
        ELSE message[k]]

\* a message frame comes in: delivered, like a pong, until the peer's close
\* frame has come in. Whatever JSON.parse returns and the destructuring
\* accepts is forwarded, an object or not
Message(t, data) ==
    /\ ws[t].listening
    /\ Receiving(t)
    /\ Arrival
    /\ event' = Event("message", t, Null, Null, NoId, data)
    /\ LET o == ws[t].session
           session == objs[o]
           role == ws[t].role
           targetWs == TargetWs(session, role)
       IN  IF ParseThrows(data)
           THEN UNCHANGED <<ws, objs>>
           ELSE /\ objs' = [objs EXCEPT ![o].lastActivity = now]
                /\ ws' = IF ~DestructureThrows(data)
                            /\ TargetConnected(ws, targetWs)
                         THEN WsSend(ws, targetWs,
                                     Forwarded(data.fields, role, now))
                         ELSE ws
    /\ UNCHANGED <<sessions, timers, now, nextSweep, emptySince>>

----------------------------------------------------------------------------
(* the transport closes: ws.on('close')                                    *)

\* the peer's close frame comes in, on an open transport or in reply to the
\* server's close(): the library records it, the transport is closing until
\* its socket has closed, and no further frame of the peer is delivered. No
\* handler of the server runs
PeerClose(t) ==
    /\ Receiving(t)
    /\ ws' = [ws EXCEPT ![t].readyState = CLOSING,
                        ![t].closeFrameReceived = TRUE]
    /\ Arrival
    /\ event' = NoEvent
    /\ UNCHANGED <<sessions, objs, timers, now, nextSweep, emptySince>>

\* a frame that is no valid frame comes in (a reserved bit set, say): the
\* library stops reading, closes the transport if it is open, and emits
\* 'error'. The listener of line 197 logs it; the transports the connection
\* handler rejected returned before that line and have no listener, and an
\* 'error' event without a listener is thrown: nothing catches it and the
\* process ends
InvalidFrame(t) ==
    /\ Receiving(t)
    /\ Arrival
    /\ ws' = [ws EXCEPT ![t].readyState = CLOSING, ![t].errorEmitted = TRUE]
    /\ event' = IF ws[t].listening
                THEN NoEvent
                ELSE Event("uncaught", t, Null, Null, NoId, NoData)
    /\ UNCHANGED <<sessions, objs, timers, now, nextSweep, emptySince>>

\* Detach, setting lastActivity as well
DetachTouching(session, role) ==
    IF role = "host"
    THEN [session EXCEPT !.hostWs = NoWs, !.lastActivity = now]
    ELSE IF role = "guest"
    THEN [session EXCEPT !.guestWs = NoWs, !.lastActivity = now]
    ELSE [session EXCEPT !.lastActivity = now]

\* session.hostWs = null, or session.guestWs = null
Detach(session, role) ==
    IF role = "host"
    THEN [session EXCEPT !.hostWs = NoWs]
    ELSE IF role = "guest"
    THEN [session EXCEPT !.guestWs = NoWs]
    ELSE session

\* LeftType, with the two types exchanged
LeftTypeSwapped(role) == IF role = "host" THEN "guest_left" ELSE "host_left"

\* the type of the notification the close of a role sends to its peer
LeftType(role) == IF role = "host" THEN "host_left" ELSE "guest_left"

LeftNotice(role, t) == [type |-> LeftType(role), timestamp |-> t]

\* the transport the close of a role notifies, when it is live
PeerWs(session, role) ==
    IF role = "host" THEN session.guestWs
    ELSE IF role = "guest" THEN session.hostWs
    ELSE NoWs

\* ReaperTimer, with the idle timeout for its delay
ReaperTimerIdle(o, sessionId, t) ==
    [session |-> o, sessionId |-> sessionId, due |-> t + IDLE_TIMEOUT,
     accepted |-> Len(ws)]

\* setTimeout(..., 5 * 60 * 1000) at time t, closing over the session object
\* and the sessionId; accepted is the model's bookkeeping of how many
\* transports had connected when the timer was set
ReaperTimer(o, sessionId, t) ==
    [session |-> o, sessionId |-> sessionId, due |-> t + GRACE_PERIOD,
     accepted |-> Len(ws)]

\* the socket of a transport closes, at the end of the closing handshake or
\* without one: the library stops reading and the transport is closing, an
\* open one too, until a later turn of the event loop emits 'close'. Until
\* then the session's binding still holds the transport. No handler of the
\* server runs
SocketEnd(t) ==
    /\ Running
    /\ ws[t].readyState \in {OPEN, CLOSING}
    /\ ~ws[t].socketClosed
    /\ IF ws[t].readyState = OPEN THEN Arrival ELSE arrivals' = arrivals
    /\ event' = NoEvent
    /\ ws' = [ws EXCEPT ![t].readyState = CLOSING, ![t].socketClosed = TRUE]
    /\ UNCHANGED <<sessions, objs, timers, now, nextSweep, emptySince>>

\* 'close' is emitted on a transport whose socket has closed: readyState
\* becomes CLOSED and the close handler runs. A transport the connection
\* handler rejected has no listener: nothing the server runs sees it
SocketClose(t) ==
    /\ Running
    /\ ws[t].readyState = CLOSING
    /\ ws[t].socketClosed
    /\ arrivals' = arrivals
    /\ event' = NoEvent
    /\ LET w0 == [ws EXCEPT ![t].readyState = CLOSED]
           o == ws[t].session
           role == ws[t].role
           w1 == [w0 EXCEPT ![t].pingInterval = FALSE]
           s1 == Detach(objs[o], role)
           peer == PeerWs(s1, role)
       IN  IF ~ws[t].listening
           THEN /\ ws' = w0
                /\ UNCHANGED <<objs, timers, emptySince>>
           ELSE /\ objs' = [objs EXCEPT ![o] = s1]
                /\ ws' = IF IsLive(w1, peer)
                         THEN WsSend(w1, peer, LeftNotice(role, now))
                         ELSE w1
                /\ timers' = Append(timers, ReaperTimer(o, ws[t].sessionId, now))
                /\ emptySince' =
                     [emptySince EXCEPT ![o] =
                        IF BothUnbound(s1) /\ ~BothUnbound(objs[o])
                        THEN now ELSE @]
    /\ UNCHANGED <<sessions, now, nextSweep>>

\* if (!session.hostWs && !session.guestWs)
Reapable(session) == session.hostWs = NoWs /\ session.guestWs = NoWs

\* the oldest empty-session timer fires
ReaperFire ==
    /\ Running
    /\ timers # <<>>
    /\ Head(timers).due <= now
    /\ timers' = Tail(timers)
    /\ event' = NoEvent
    /\ sessions' = IF Reapable(objs[Head(timers).session])
                   THEN MapDelete(sessions, Head(timers).sessionId)
                   ELSE sessions
    /\ UNCHANGED <<objs, ws, now, nextSweep, emptySince, arrivals>>

----------------------------------------------------------------------------
(* the idle sweep: setInterval(..., 10 * 60 * 1000)                        *)

\* Expired, sparing a session that has a transport bound
ExpiredIfUnbound(session, t) ==
    t - session.lastActivity > IDLE_TIMEOUT /\ BothUnbound(session)

\* now - session.lastActivity > timeout
Expired(session, t) == t - session.lastActivity > IDLE_TIMEOUT

\* the ids the sweep removes
ExpiredIds == {id \in DOMAIN sessions : Expired(objs[sessions[id]], now)}

\* the transports the sweep calls close() on
SweptWs ==
    {t \in 1..Len(ws) :
        \E id \in ExpiredIds :
            t \in {objs[sessions[id]].hostWs, objs[sessions[id]].guestWs}}

IdleSweep ==
    /\ Running
    /\ now >= nextSweep
    /\ nextSweep' = nextSweep + SWEEP_INTERVAL
    /\ event' = NoEvent
    /\ ws' = [t \in 1..Len(ws) |->
                IF t \in SweptWs THEN WsClose(ws, t, NoCode)[t] ELSE ws[t]]
    /\ sessions' = [id \in (DOMAIN sessions) \ ExpiredIds |-> sessions[id]]
    /\ UNCHANGED <<objs, timers, now, emptySince, arrivals>>

----------------------------------------------------------------------------
(* the clock                                                               *)

\* no timer is due: a due timer fires before the clock moves on
NoTimerDue ==
    /\ nextSweep > now
    /\ timers # <<>> => Head(timers).due > now

\* what takes far less than a quantum has happened: the 30 s ping interval
\* has ticked on every transport that is no longer open, and the socket of
\* every closing transport has closed
Settled ==
    \A t \in 1..Len(ws) :
        /\ ws[t].readyState # CLOSING
        /\ ws[t].pingInterval => ws[t].readyState = OPEN

Tick ==
    /\ Running
    /\ now < MaxTicks * Quantum
    /\ NoTimerDue
    /\ Settled
    /\ now' = now + Quantum
    /\ event' = NoEvent
    /\ UNCHANGED <<sessions, objs, ws, timers, nextSweep, emptySince, arrivals>>

----------------------------------------------------------------------------
Next ==
    \/ \E sessionId \in SessionIdChoices : CreateSession(sessionId)
    \/ \E r \in Requests : Connect(r.sessionId, r.role, r.clientId)
    \/ ConnectInvalidUrl
    \/ \E t \in 1..Len(ws) : PingTick(t)
    \/ \E t \in 1..Len(ws) : Pong(t)
    \/ \E t \in 1..Len(ws), data \in Payloads : Message(t, data)
    \/ \E t \in 1..Len(ws) : PeerClose(t)
    \/ \E t \in 1..Len(ws) : InvalidFrame(t)
    \/ \E t \in 1..Len(ws) : SocketEnd(t)
    \/ \E t \in 1..Len(ws) : SocketClose(t)
    \/ ReaperFire
    \/ IdleSweep
    \/ Tick

Spec == Init /\ [][Next]_vars

----------------------------------------------------------------------------
(* Steps, as the properties below recognise them                           *)

\* the step served a create-session request
CreateStep == Len(objs') = Len(objs) + 1

\* the step ran the connection handler, on transport Len(ws')
ConnectStep == Len(ws') = Len(ws) + 1

\* the step ran the message handler, on transport event'.ws
MessageStep == arrivals' = arrivals + 1 /\ event'.op = "message"

\* the step emitted 'close' on transport t
CloseStep(t) == ws[t].readyState # CLOSED /\ ws'[t].readyState = CLOSED

\* the step ran the idle sweep
SweepStep == nextSweep' # nextSweep

\* a transport the connection handler closed with the policy-violation
\* status, and did nothing else with
RejectedWs ==
    [NewWs EXCEPT !.readyState = CLOSING, !.closeCode = POLICY_VIOLATION]

\* the connection handler did nothing but reject the new transport
OnlyRejected ==
    /\ ws' = Append(ws, RejectedWs)
    /\ sessions' = sessions
    /\ objs' = objs
    /\ timers' = timers

\* no transport was sent anything in the step
NothingSent ==
    /\ Len(ws') = Len(ws)
    /\ \A u \in 1..Len(ws) : ws'[u].sent = ws[u].sent

\* some transport was bound to session object o as host or guest
EverBound(o) ==
    \E t \in 1..Len(ws) :
        ws[t].listening /\ ws[t].session = o /\ ws[t].role \in {"host", "guest"}

----------------------------------------------------------------------------
(* C1: a create-session request never draws the id of a session that is   *)
(* in the registry, so it never replaces a live session.                  *)
(* The code draws the id and sets it in the Map without looking it up:    *)
(* the statement fails when the 8 characters kept of the uuid repeat.     *)
C1_CreateNeverCollides ==
    [][CreateStep => ~MapHas(sessions, objs'[Len(objs')].id)]_vars

(* C2: a connection with role host whose clientId is not the session's    *)
(* hostId is closed with the policy-violation status; the session and the *)
(* registry are as before, nothing is sent on any transport, and the      *)
(* transport has no handler that could change the session later.          *)
C2_WrongHostIdRejected ==
    /\ [][(/\ ConnectStep
           /\ event'.role = "host"
           /\ MapHas(sessions, event'.sessionId)
           /\ event'.clientId # objs[sessions[event'.sessionId]].hostId)
          => OnlyRejected]_vars
    /\ [](\A t \in 1..Len(ws) :
             ws[t].closeCode = POLICY_VIOLATION =>
                 /\ ~ws[t].listening
                 /\ ~ws[t].pingInterval
                 /\ ws[t].sent = <<>>
                 /\ ws[t].readyState # OPEN)

\* a bound host is still bound after a host request with another session's
\* hostId was rejected
C2_Witness ==
    /\ event.op = "connect"
    /\ event.role = "host"
    /\ MapHas(sessions, event.sessionId)
    /\ event.clientId # NoId
    /\ event.clientId # objs[sessions[event.sessionId]].hostId
    /\ ws[event.ws].closeCode = POLICY_VIOLATION
    /\ IsLive(ws, objs[sessions[event.sessionId]].hostWs)

(* C3: a connection to a session of the registry whose role is neither    *)
(* host nor guest is closed at once, changes no session, is sent no       *)
(* acknowledgment, and nothing it sends is relayed.                       *)
(* The code has no branch for such a role: it skips the two bindings and  *)
(* goes on to update lastActivity, acknowledge and install the handlers,  *)
(* and handleMessage then relays the transport's messages to the host.    *)
C3_UnknownRoleRejected ==
    /\ [][(/\ ConnectStep
           /\ MapHas(sessions, event'.sessionId)
           /\ event'.role \notin {"host", "guest", Null})
          => OnlyRejected]_vars
    /\ [][(MessageStep /\ ws[event'.ws].role \notin {"host", "guest"})
          => NothingSent]_vars

(* C4: a connection without a session id, without a role, or with a       *)
(* session id that is not in the registry is closed with the              *)
(* policy-violation status, and the registry and every session are as     *)
(* before.                                                                *)
(* A request whose target does not parse as a URL carries no session id   *)
(* and is not closed: new URL throws before the tests, the transport      *)
(* stays open and the exception ends the process.                         *)
C4_MissingOrUnknownRejected ==
    [][(/\ ConnectStep
        /\ \/ event'.sessionId = Null
           \/ event'.role = Null
           \/ ~MapHas(sessions, event'.sessionId))
       => OnlyRejected]_vars

----------------------------------------------------------------------------
(* Relaying                                                                *)

\* the role a message of role R is relayed to
PeerRole(role) == IF role = "host" THEN "guest" ELSE "host"

\* the transport bound, in session object o, to a role
BoundWs(o, role) == IF role = "host" THEN objs[o].hostWs ELSE objs[o].guestWs

\* the step handled an object sent by a host or guest transport
RelayStep ==
    /\ MessageStep
    /\ event'.data.kind = "object"
    /\ ws[event'.ws].role \in {"host", "guest"}

\* the transport bound to the peer role of the sender of the step's message
RelayPeer == BoundWs(ws[event'.ws].session, PeerRole(ws[event'.ws].role))

\* the step sent transport u exactly one message, msg, and no other
\* transport anything
SentOnly(u, msg) ==
    /\ Len(ws') = Len(ws)
    /\ ws'[u].sent = Append(ws[u].sent, msg)
    /\ \A v \in (1..Len(ws)) \ {u} : ws'[v].sent = ws[v].sent

\* the last message sent to transport u
LastSent(u) == ws[u].sent[Len(ws[u].sent)]

(* C5, as claimed: a message from the host or guest transport, while the  *)
(* peer role is bound to an open transport, reaches that transport once,  *)
(* with sender = the role, a timestamp, and every field of the original   *)
(* with its original value.                                               *)
C5_ForwardKeepsEveryField ==
    [][RelayStep /\ IsLive(ws, RelayPeer) =>
         \E msg \in {ws'[RelayPeer].sent[Len(ws'[RelayPeer].sent)]} :
            /\ SentOnly(RelayPeer, msg)
            /\ msg.sender = ws[event'.ws].role
            /\ msg.timestamp = now
            /\ \A k \in DOMAIN event'.data.fields :
                  msg[k] = event'.data.fields[k]]_vars

(* C5, amended: ... and every field of the original other than sender and *)
(* timestamp with its original value; a sender or timestamp field of the  *)
(* original is replaced by the relay's.                                   *)
C5_ForwardKeepsOtherFields ==
    [][RelayStep /\ IsLive(ws, RelayPeer) =>
         \E msg \in {ws'[RelayPeer].sent[Len(ws'[RelayPeer].sent)]} :
            /\ SentOnly(RelayPeer, msg)
            /\ DOMAIN msg = (DOMAIN event'.data.fields) \cup {"sender", "timestamp"}
            /\ msg.sender = ws[event'.ws].role
            /\ msg.timestamp = now
            /\ \A k \in (DOMAIN event'.data.fields) \ {"sender", "timestamp"} :
                  msg[k] = event'.data.fields[k]]_vars

\* the guest was sent the host's message, which had a sender and a timestamp
\* of its own, with the relay's sender and timestamp and the original text
C5_Witness ==
    /\ event.op = "message"
    /\ event.data.kind = "object"
    /\ {"sender", "timestamp"} \subseteq DOMAIN event.data.fields
    /\ ws[event.ws].role = "host"
    /\ event.data.fields.sender # "host"
    /\ event.data.fields.timestamp # now
    /\ IsLive(ws, objs[ws[event.ws].session].guestWs)
    /\ ws[objs[ws[event.ws].session].guestWs].sent # <<>>
    /\ LastSent(objs[ws[event.ws].session].guestWs).sender = "host"
    /\ LastSent(objs[ws[event.ws].session].guestWs).timestamp = now
    /\ LastSent(objs[ws[event.ws].session].guestWs).text = event.data.fields.text

(* C6: a message from the host or guest transport while the peer role is  *)
(* unbound, or bound to a transport that is not open, is sent to no       *)
(* transport, the sender included; and it is not kept: whatever relayed   *)
(* message a step sends is the message that step received.                *)
C6_DroppedWhenPeerAbsent ==
    /\ [][(/\ MessageStep
           /\ ws[event'.ws].role \in {"host", "guest"}
           /\ ~IsLive(ws, RelayPeer))
          => NothingSent]_vars
    /\ [][\A u \in 1..Len(ws') :
            \A i \in 1..Len(ws'[u].sent) :
               (/\ "sender" \in DOMAIN ws'[u].sent[i]
                /\ (u > Len(ws) \/ i > Len(ws[u].sent)))
               => /\ MessageStep
                  /\ event'.data.kind \notin {"garbage", "null"}
                  /\ i = Len(ws'[u].sent)
                  /\ \A k \in (DOMAIN event'.data.fields) \ {"sender", "timestamp"} :
                        ws'[u].sent[i][k] = event'.data.fields[k]]_vars

\* the host sent an object while the guest bound to the session was closing,
\* and the guest was sent nothing but its acknowledgment
C6_Witness ==
    /\ event.op = "message"
    /\ event.data.kind = "object"
    /\ ws[event.ws].role = "host"
    /\ objs[ws[event.ws].session].guestWs # NoWs
    /\ ws[objs[ws[event.ws].session].guestWs].readyState = CLOSING
    /\ Len(ws[objs[ws[event.ws].session].guestWs].sent) = 1

----------------------------------------------------------------------------
(* Notifications                                                           *)

\* the step bound the new transport as the guest of the session it named
GuestBindStep ==
    /\ ConnectStep
    /\ event'.role = "guest"
    /\ ws'[Len(ws')].listening

\* the host binding, before the step, of the session the step's request names
RequestHostWs == objs[sessions[event'.sessionId]].hostWs

\* the type of a message sent to a transport, Null for one that has none
TypeOf(msg) == IF "type" \in DOMAIN msg THEN msg.type ELSE Null

\* the step sent a guest_joined message to no transport
NoGuestJoined ==
    \A u \in 1..Len(ws') :
        \A i \in 1..Len(ws'[u].sent) :
            (u > Len(ws) \/ i > Len(ws[u].sent))
            => TypeOf(ws'[u].sent[i]) # "guest_joined"

\* the step sent the host transport h one guest_joined message, with the
\* guestId of the session, and no other transport a guest_joined message
OneGuestJoined(h) ==
    /\ Len(ws'[h].sent) = Len(ws[h].sent) + 1
    /\ TypeOf(ws'[h].sent[Len(ws'[h].sent)]) = "guest_joined"
    /\ ws'[h].sent[Len(ws'[h].sent)].guestId
          = objs'[sessions[event'.sessionId]].guestId
    /\ ws'[h].sent[Len(ws'[h].sent)].guestId # NoId
    /\ \A u \in (1..Len(ws')) \ {h} :
          \A i \in 1..Len(ws'[u].sent) :
             (u > Len(ws) \/ i > Len(ws[u].sent))
             => TypeOf(ws'[u].sent[i]) # "guest_joined"

(* C7, as claimed: a guest bind while a host transport is bound sends the *)
(* host transport one guest_joined message with the session's guestId; a  *)
(* guest bind with no host bound sends guest_joined to nobody.            *)
C7_GuestJoinedWhenHostBound ==
    [][GuestBindStep =>
         IF RequestHostWs # NoWs
         THEN OneGuestJoined(RequestHostWs)
         ELSE NoGuestJoined]_vars

(* C7, amended: a guest bind while a host transport is bound and open     *)
(* sends it one guest_joined message with the session's guestId; a guest  *)
(* bind with no host bound, or with a host transport that is closing,     *)
(* sends guest_joined to nobody.                                          *)
C7_GuestJoinedWhenHostOpen ==
    [][GuestBindStep =>
         IF IsLive(ws, RequestHostWs)
         THEN OneGuestJoined(RequestHostWs)
         ELSE NoGuestJoined]_vars

\* a guest has just bound, and the open host was sent guest_joined with the
\* guestId the session now has
C7_Witness ==
    /\ event.op = "connect"
    /\ event.role = "guest"
    /\ ws[event.ws].listening
    /\ IsLive(ws, objs[ws[event.ws].session].hostWs)
    /\ TypeOf(LastSent(objs[ws[event.ws].session].hostWs)) = "guest_joined"
    /\ LastSent(objs[ws[event.ws].session].hostWs).guestId
          = objs[ws[event.ws].session].guestId
    /\ objs[ws[event.ws].session].guestId # NoId

(* C8: when a host or guest transport closes while the peer role is bound *)
(* to an open transport, that transport is sent one notification,         *)
(* host_left for a host and guest_left for a guest, and no other          *)
(* transport anything; when the peer role is unbound or not open nothing  *)
(* is sent; and the binding of the closed role is unbound afterwards.     *)
C8_PeerToldOfClose ==
    [][\A t \in 1..Len(ws) :
         (CloseStep(t) /\ ws[t].role \in {"host", "guest"}) =>
            /\ BoundWs(ws[t].session, ws[t].role)' = NoWs
            /\ IF IsLive(ws, BoundWs(ws[t].session, PeerRole(ws[t].role)))
               THEN \E msg \in {[type |-> ws[t].role \o "_left",
                                 timestamp |-> now]} :
                       SentOnly(BoundWs(ws[t].session, PeerRole(ws[t].role)),
                                msg)
               ELSE NothingSent]_vars

\* the host transport has closed, the host binding is unbound, and the last
\* message the open guest was sent is host_left
C8_Witness ==
    \E t \in 1..Len(ws) :
        /\ ws[t].role = "host"
        /\ ws[t].readyState = CLOSED
        /\ objs[ws[t].session].hostWs = NoWs
        /\ IsLive(ws, objs[ws[t].session].guestWs)
        /\ TypeOf(LastSent(objs[ws[t].session].guestWs)) = "host_left"

----------------------------------------------------------------------------
(* Cleanup                                                                 *)

\* session object o is the one the registry holds under its id
InRegistry(o) == MapGet(sessions, objs[o].id) = o

(* C9, as claimed: a session, whether or not a transport was ever bound   *)
(* to it, whose two bindings have been unbound for longer than the grace  *)
(* period is not in the registry.                                         *)
C9_EmptySessionGone ==
    \A o \in 1..Len(objs) :
        (BothUnbound(objs[o]) /\ now - emptySince[o] > GRACE_PERIOD)
        => ~InRegistry(o)

(* C9, amended: a session to which a transport was bound as host or guest *)
(* at some time, and whose two bindings have been unbound for longer than *)
(* the grace period, is not in the registry. (The timer is set by the     *)
(* close handler alone: the bindings of such a session were emptied by a  *)
(* close, one that was never bound may have no timer.)                    *)
C9_EmptySessionGoneOnceBound ==
    \A o \in 1..Len(objs) :
        (/\ EverBound(o)
         /\ BothUnbound(objs[o])
         /\ now - emptySince[o] > GRACE_PERIOD)
        => /\ ~InRegistry(o)
           /\ (~MapHas(sessions, objs[o].id)
                  => QuerySession(objs[o].id) = NotFound)

\* a session that had a transport bound has been empty for longer than the
\* grace period, well before the idle timeout, and a query for its id
\* answers not found
C9_Witness ==
    \E o \in 1..Len(objs) :
        /\ EverBound(o)
        /\ BothUnbound(objs[o])
        /\ now - emptySince[o] > GRACE_PERIOD
        /\ now < IDLE_TIMEOUT
        /\ QuerySession(objs[o].id) = NotFound

(* C10: a run of the idle sweep removes from the registry every session   *)
(* whose lastActivity is older than the idle timeout, bound or not, and   *)
(* leaves none of its bound transports open; so between sweeps the        *)
(* registry holds no session that had expired when the last sweep ran,    *)
(* and a session without activity is gone by the first sweep after its    *)
(* timeout.                                                               *)
C10_IdleSweepRemoves ==
    /\ [][SweepStep =>
            \A id \in DOMAIN sessions :
               now - objs[sessions[id]].lastActivity > IDLE_TIMEOUT
               => /\ ~MapHas(sessions', id)
                  /\ \A t \in {objs[sessions[id]].hostWs,
                               objs[sessions[id]].guestWs} \ {NoWs} :
                        ws'[t].readyState # OPEN]_vars
    /\ [](\A id \in DOMAIN sessions :
             (nextSweep - SWEEP_INTERVAL) - objs[sessions[id]].lastActivity
                <= IDLE_TIMEOUT)

\* the sweep has run after the idle timeout of a session whose host and
\* guest were bound and open: the session is gone and both are closing
C10_Witness ==
    \E o \in 1..Len(objs) :
        /\ ~MapHas(sessions, objs[o].id)
        /\ now - objs[o].lastActivity > IDLE_TIMEOUT
        /\ objs[o].hostWs # NoWs
        /\ objs[o].guestWs # NoWs
        /\ ws[objs[o].hostWs].readyState = CLOSING
        /\ ws[objs[o].guestWs].readyState = CLOSING

----------------------------------------------------------------------------
(* Identity                                                                *)

\* the transports that bound to session object o as guest, in any state
GuestsOf(o) ==
    {t \in 1..Len(ws) :
        ws[t].listening /\ ws[t].session = o /\ ws[t].role = "guest"}

(* C11: the guestId of a session is null until the first guest binds, is   *)
(* the identifier drawn at that first bind from then on, and once it is    *)
(* not null no step changes it: no later guest bind or rebind, close,      *)
(* message, timer or sweep.                                                *)
C11_GuestIdAssignedOnce ==
    /\ [](\A o \in 1..Len(objs) :
             IF GuestsOf(o) = {}
             THEN objs[o].guestId = NoId
             ELSE \E t \in GuestsOf(o) :
                     /\ \A u \in GuestsOf(o) : t <= u
                     /\ objs[o].guestId = GuestIdOf(t))
    /\ [][\A o \in 1..Len(objs) :
            objs[o].guestId # NoId => objs'[o].guestId = objs[o].guestId]_vars

\* a second guest has just bound to a session whose first guest has closed,
\* and the session's guestId is still the one drawn for the first
C11_Witness ==
    /\ event.op = "connect"
    /\ event.role = "guest"
    /\ ws[event.ws].listening
    /\ \E t \in GuestsOf(ws[event.ws].session) :
          /\ t < event.ws
          /\ ws[t].readyState = CLOSED
          /\ objs[ws[event.ws].session].guestId = GuestIdOf(t)
          /\ objs[ws[event.ws].session].guestWs = event.ws

----------------------------------------------------------------------------
(* The empty-session timer                                                 *)

\* the step ran the callback of the oldest empty-session timer
ReaperStep == timers # <<>> /\ timers' = Tail(timers)

\* a transport bound to session object o as host or guest after the first n
\* transports had connected
BoundAfter(o, n) ==
    \E t \in (n + 1)..Len(ws) :
        ws[t].listening /\ ws[t].session = o /\ ws[t].role \in {"host", "guest"}

(* C12: an empty-session timer deletes the session only if both bindings   *)
(* are unbound when it fires, and not if a transport bound to the session  *)
(* between the close that set the timer and its firing, even when that     *)
(* transport has closed again before the timer fires.                      *)
(* The callback tests the two bindings and nothing else: a session that a  *)
(* transport rebound to and left again is deleted by the timer of the      *)
(* earlier close, before it has been empty for the grace period.           *)
C12_RebindCancelsReaper ==
    [][(ReaperStep /\ sessions' # sessions) =>
          /\ BothUnbound(objs[Head(timers).session])
          /\ ~BoundAfter(Head(timers).session, Head(timers).accepted)]_vars

----------------------------------------------------------------------------
(* lastActivity                                                            *)

\* the step ran the pong handler of some transport of session object o
PongStep(o) ==
    /\ arrivals' = arrivals + 1
    /\ event'.op = "none"
    /\ ws' = ws
    /\ Len(objs') = Len(objs)
    /\ \E t \in 1..Len(ws) : ws[t].listening /\ ws[t].session = o

\* the step's connection request got past the checks, for session object o
AcceptStep(o) ==
    /\ ConnectStep
    /\ ws'[Len(ws')].listening
    /\ ws'[Len(ws')].session = o

\* the step handled a message that parsed, on a transport of session object o
ParsedStep(o) ==
    /\ MessageStep
    /\ event'.data.kind # "garbage"
    /\ ws[event'.ws].session = o

(* C13, as claimed: the close of a transport bound as host or guest sets   *)
(* the session's lastActivity to the time of the close.                    *)
C13_CloseSetsLastActivity ==
    [][\A t \in 1..Len(ws) :
         (CloseStep(t) /\ ws[t].role \in {"host", "guest"})
         => objs'[ws[t].session].lastActivity = now]_vars

(* C13, amended: the close of a transport leaves lastActivity as it was;   *)
(* lastActivity changes only when a connection is accepted, a message that *)
(* parses is handled or a pong comes in, and is then the time of that      *)
(* step: the idle timeout is measured from the most recent of these.       *)
C13_CloseKeepsLastActivity ==
    [][/\ \A t \in 1..Len(ws) :
            CloseStep(t) =>
               \A o \in 1..Len(objs) :
                  objs'[o].lastActivity = objs[o].lastActivity
       /\ \A o \in 1..Len(objs) :
            objs'[o].lastActivity # objs[o].lastActivity
            => /\ objs'[o].lastActivity = now
               /\ AcceptStep(o) \/ ParsedStep(o) \/ PongStep(o)]_vars

\* a host or guest transport has closed at the present time, which set the
\* timer that is due a grace period from now, and the session's lastActivity
\* is still an earlier time
C13_Witness ==
    \E t \in 1..Len(ws) :
        /\ ws[t].readyState = CLOSED
        /\ ws[t].role \in {"host", "guest"}
        /\ BoundWs(ws[t].session, ws[t].role) = NoWs
        /\ timers # <<>>
        /\ timers[Len(timers)].session = ws[t].session
        /\ timers[Len(timers)].due = now + GRACE_PERIOD
        /\ timers[Len(timers)].accepted = Len(ws)
        /\ objs[ws[t].session].lastActivity < now

----------------------------------------------------------------------------
(* Liveness probing                                                        *)

(* C14: a ping is sent only on a transport that is open and whose interval *)
(* is set; a transport that has closed has no interval left, the close     *)
(* handler having cleared it; an interval that was cleared, by the close   *)
(* handler or by a tick that found the transport not open, is never set    *)
(* again.                                                                  *)
C14_ProbingStops ==
    /\ [](event.op = "ping" =>
             /\ ws[event.ws].readyState = OPEN
             /\ ws[event.ws].pingInterval)
    /\ [](\A t \in 1..Len(ws) :
             ws[t].readyState = CLOSED => ~ws[t].pingInterval)
    /\ [][\A t \in 1..Len(ws) :
            (ws[t].listening /\ ~ws[t].pingInterval)
            => ~ws'[t].pingInterval]_vars

\* the interval of one transport was cleared by a tick that found it
\* closing, that of another by the close handler, and a third transport, of
\* the same session and still open, has just been pinged
C14_Witness ==
    /\ event.op = "ping"
    /\ \E t, u \in 1..Len(ws) :
          /\ ws[t].listening /\ ws[t].readyState = CLOSING
          /\ ~ws[t].pingInterval
          /\ ws[u].listening /\ ws[u].readyState = CLOSED
          /\ ws[t].session = ws[event.ws].session
          /\ ws[u].session = ws[event.ws].session

----------------------------------------------------------------------------
(* Malformed payloads                                                      *)

\* the step handled a payload that is no structured message: text that
\* JSON.parse rejects, or JSON text that is no object (null, a number, a
\* boolean, a string, an array)
MalformedStep ==
    /\ MessageStep
    /\ event'.data.kind # "object"

(* C15: a payload that does not parse as a structured message is           *)
(* discarded: nothing is sent on any transport, every transport is as      *)
(* before (the sender is still open, bound and listening), the registry    *)
(* and the timers are as before, and no session changes in anything but    *)
(* lastActivity (which text that JSON.parse rejects leaves alone as well); *)
(* so the next message on the transport finds the state a well-formed      *)
(* message is relayed in. The relay does so for text that JSON.parse       *)
(* rejects and for null; a number, a boolean, a string or an array it      *)
(* forwards to the live peer, as sender, timestamp and the value's own     *)
(* indexed properties.                                                     *)
C15_MalformedDiscarded ==
    [][MalformedStep =>
          /\ NothingSent
          /\ ws' = ws
          /\ sessions' = sessions
          /\ timers' = timers
          /\ Len(objs') = Len(objs)
          /\ \A o \in 1..Len(objs) :
                [objs'[o] EXCEPT !.lastActivity = objs[o].lastActivity] = objs[o]
          /\ event'.data.kind = "garbage" => objs' = objs]_vars

----------------------------------------------------------------------------
(* Rebinding                                                               *)

\* the transports that bound to session object o in a role
BoundAs(o, role) ==
    {t \in 1..Len(ws) :
        ws[t].listening /\ ws[t].session = o /\ ws[t].role = role}

\* transport t is the one that bound to session object o in a role last
LatestBound(t, o, role) ==
    /\ t \in BoundAs(o, role)
    /\ \A u \in BoundAs(o, role) : u <= t

\* what the session query reports of a role
QueryHas(o, role) ==
    IF role = "host" THEN QuerySession(objs[o].id).hasHost
    ELSE QuerySession(objs[o].id).hasGuest

(* C16: while the transport that bound last to a role of a session is      *)
(* open, the session's binding for the role is that transport, and the     *)
(* query of a session of the registry reports the role as present.         *)
(* The close handler of a transport sets the binding of its role to null   *)
(* whatever the binding holds: when a transport that a rebind superseded   *)
(* closes, the transport bound now is unbound.                             *)
C16_LatestOpenIsBound ==
    \A o \in 1..Len(objs) :
        \A role \in {"host", "guest"} :
            \A t \in 1..Len(ws) :
                (LatestBound(t, o, role) /\ ws[t].readyState = OPEN)
                => /\ BoundWs(o, role) = t
                   /\ InRegistry(o) => QueryHas(o, role)

(* C17: the empty-session timer never removes from the registry a session  *)
(* to which a transport that bound as host or guest is still open.         *)
(* The callback tests the bindings, and the bindings are null after the    *)
(* close of a superseded transport although the current one is open; and   *)
(* it deletes by id, whatever session the registry holds under it.         *)
C17_ReaperSparesOpen ==
    [][(ReaperStep /\ sessions' # sessions) =>
          \A t \in 1..Len(ws) :
              (/\ ws[t].listening
               /\ ws[t].role \in {"host", "guest"}
               /\ ws[t].session = sessions[Head(timers).sessionId])
              => ws[t].readyState # OPEN]_vars

(* C18: a message is relayed only when it came in on the transport that    *)
(* the session's binding for the sender's role holds: a message from a     *)
(* transport that a rebind superseded, or that bound as neither host nor   *)
(* guest, is sent to no transport.                                         *)
(* The message handler closes over the role and the session and never      *)
(* looks at the binding of its own role: a superseded transport, and one   *)
(* whose role is neither host nor guest, are relayed like the current one. *)
C18_OnlyBoundSenderRelayed ==
    [][(MessageStep /\ ~NothingSent) =>
          /\ ws[event'.ws].role \in {"host", "guest"}
          /\ BoundWs(ws[event'.ws].session, ws[event'.ws].role) = event'.ws]_vars

(* C19: the timer set by a close on a session removes that session only:   *)
(* when the session is no longer in the registry and another one has been  *)
(* created under its id, the timer's firing leaves that one in place.      *)
(* The callback tests the bindings of the session object it closed over    *)
(* and then deletes by id: whatever session the registry holds under the   *)
(* id at that time is removed.                                             *)
C19_ReaperRemovesOwnSession ==
    [][(ReaperStep /\ sessions' # sessions) =>
          sessions[Head(timers).sessionId] = Head(timers).session]_vars

----------------------------------------------------------------------------
(* Order of delivery                                                       *)

(* C20: what a transport was sent is never reordered or withdrawn: every   *)
(* step leaves the messages sent to a transport so far as they are and     *)
(* puts new ones after them; the handling of one inbound message sends at  *)
(* most one message, to one transport; and the messages sent to a          *)
(* transport are in the order of their timestamps. So two messages of one  *)
(* sender that are both relayed reach the peer in the order in which they  *)
(* came in, each once.                                                     *)
C20_RelayInOrder ==
    /\ [][\A u \in 1..Len(ws) :
            /\ Len(ws'[u].sent) >= Len(ws[u].sent)
            /\ SubSeq(ws'[u].sent, 1, Len(ws[u].sent)) = ws[u].sent]_vars
    /\ [][MessageStep =>
            \/ NothingSent
            \/ \E u \in 1..Len(ws) :
                  /\ Len(ws'[u].sent) = Len(ws[u].sent) + 1
                  /\ SentOnly(u, ws'[u].sent[Len(ws'[u].sent)])
                  /\ ws'[u].sent[Len(ws'[u].sent)]
                        = Forwarded(event'.data.fields, ws[event'.ws].role, now)]_vars
    /\ [](\A u \in 1..Len(ws) :
             \A i, j \in 1..Len(ws[u].sent) :
                i < j => ws[u].sent[i].timestamp <= ws[u].sent[j].timestamp)

\* the guest was sent two messages of the host one after the other, the
\* first relayed at an earlier time than the second, which is the one the
\* host has just sent
C20_Witness ==
    /\ event.op = "message"
    /\ event.data.kind = "object"
    /\ ws[event.ws].role = "host"
    /\ \E u \in 1..Len(ws) :
          /\ u = objs[ws[event.ws].session].guestWs
          /\ Len(ws[u].sent) = 3
          /\ ws[u].sent[2].sender = "host"
          /\ ws[u].sent[3].sender = "host"
          /\ ws[u].sent[2].timestamp < ws[u].sent[3].timestamp
          /\ ws[u].sent[3].timestamp = now

====
